---------------------------- MODULE Spec2Model ----------------------------
(***************************************************************************)
(* A model of the currency converter component (src/src/App.tsx).         *)
(*                                                                         *)
(* The component is a React function component.  Its state is the set of  *)
(* useState cells; every handler and every resolve cycle reads the values *)
(* captured by the render that created it (its closure).  A resolve cycle *)
(* (fetchExchangeRate) on a pair with a crypto leg has no macrotask       *)
(* suspension point and is one step; on a fiat-fiat pair it suspends at   *)
(* the network request and is two steps: the start, and the completion    *)
(* when the response (or the rejection) arrives.                          *)
(*                                                                         *)
(* JavaScript numbers are modelled as exact rationals [n, d] in lowest    *)
(* terms with d > 0; NaN is [n |-> 0, d |-> 0].  Texts that are parsed    *)
(* (amount, customRate) are sequences of one-character strings.           *)
(***************************************************************************)
EXTENDS Integers, Sequences, FiniteSets, TLC

---------------------------------------------------------------------------
(* Bounds of the model                                                     *)

\* Resolve cycles started in one behaviour (the mount cycle included).
MaxCycles == 3
\* Uses of the amount field, the custom-rate field and the custom-rate
\* toggle in one behaviour.
MaxEdits == 2
\* How many successive Math.random() values a cycle's series varies over; the
\* draws repeat with this period along the series.
StreamPeriod == 1

---------------------------------------------------------------------------
(* Numbers                                                                 *)

Abs(x) == IF x < 0 THEN -x ELSE x

RECURSIVE GCD(_, _)
GCD(a, b) == IF b = 0 THEN a ELSE GCD(b, a % b)

NaN == [n |-> 0, d |-> 0]

IsNaN(a) == a.d = 0

\* The rational p/q (q # 0) in lowest terms.
Rat(p, q) ==
    LET g == GCD(Abs(p), Abs(q))
        s == IF q < 0 THEN -1 ELSE 1
    IN  [n |-> s * (p \div g), d |-> s * (q \div g)]

Num(k) == [n |-> k, d |-> 1]

Mul(a, b) ==
    IF IsNaN(a) \/ IsNaN(b) THEN NaN
    ELSE LET x == Rat(a.n, b.d)
             y == Rat(b.n, a.d)
         IN  [n |-> x.n * y.n, d |-> x.d * y.d]

Div(a, b) ==
    IF IsNaN(a) \/ IsNaN(b) \/ b.n = 0 THEN NaN
    ELSE Mul(a, Rat(b.d, b.n))

Add(a, b) ==
    IF IsNaN(a) \/ IsNaN(b) THEN NaN
    ELSE LET g == GCD(a.d, b.d)
         IN  Rat(a.n * (b.d \div g) + b.n * (a.d \div g), a.d * (b.d \div g))

Sub(a, b) == Add(a, [n |-> -b.n, d |-> b.d])

\* a <= b as JavaScript compares numbers: false when either is NaN.
Leq(a, b) == ~IsNaN(a) /\ ~IsNaN(b) /\ a.n * b.d <= b.n * a.d

\* JavaScript truthiness of a number: neither 0 nor NaN.
Truthy(a) == ~IsNaN(a) /\ a.n # 0

---------------------------------------------------------------------------
(* Program constants                                                       *)

fiatCurrencies == <<"USD", "EUR", "GBP", "JPY", "AUD", "CAD", "CHF", "CNY", "INR">>

cryptoCurrencies == <<"BTC", "ETH", "USDT", "BNB", "XRP", "ADA", "DOT", "DOGE">>

timeRanges == <<"1w", "1m", "3m", "1y">>

Range(s) == {s[i] : i \in 1..Len(s)}

Symbols == Range(fiatCurrencies) \cup Range(cryptoCurrencies)

cryptoBaseRates ==
    [c \in Range(cryptoCurrencies) |->
        CASE c = "BTC"  -> Num(45000)
          [] c = "ETH"  -> Num(3000)
          [] c = "USDT" -> Num(1)
          [] c = "BNB"  -> Num(380)
          [] c = "XRP"  -> Rat(1, 2)
          [] c = "ADA"  -> Rat(1, 2)
          [] c = "DOT"  -> Num(7)
          [] c = "DOGE" -> Rat(8, 100)]

ErrorMessage == "Failed to fetch exchange rate. Please try again later."

\* cryptoCurrencies.includes(c)
IsCrypto(c) == \E i \in 1..Len(cryptoCurrencies) : cryptoCurrencies[i] = c

---------------------------------------------------------------------------
(* Dates: a calendar day [y, m, d] of the local time zone                  *)

IsLeap(y) == (y % 4 = 0 /\ y % 100 # 0) \/ y % 400 = 0

DaysInMonth(y, m) ==
    IF m = 2 THEN (IF IsLeap(y) THEN 29 ELSE 28)
    ELSE IF m \in {4, 6, 9, 11} THEN 30 ELSE 31

\* Date.setDate(getDate() + 1): the day after, rolling month and year over.
NextDay(dt) ==
    IF dt.d < DaysInMonth(dt.y, dt.m) THEN [dt EXCEPT !.d = dt.d + 1]
    ELSE IF dt.m < 12 THEN [y |-> dt.y, m |-> dt.m + 1, d |-> 1]
    ELSE [y |-> dt.y + 1, m |-> 1, d |-> 1]

\* Date.setDate(getDate() - 1): the day before.
PrevDay(dt) ==
    IF dt.d > 1 THEN [dt EXCEPT !.d = dt.d - 1]
    ELSE IF dt.m > 1 THEN [y |-> dt.y, m |-> dt.m - 1, d |-> DaysInMonth(dt.y, dt.m - 1)]
    ELSE [y |-> dt.y - 1, m |-> 12, d |-> 31]

\* date-fns subDays(date, k)
RECURSIVE subDays(_, _)
subDays(dt, k) == IF k = 0 THEN dt ELSE subDays(PrevDay(dt), k - 1)

\* date-fns subMonths(date, k): the same day of the month k months back,
\* clamped to the last day of that month.
subMonths(dt, k) ==
    LET idx == dt.y * 12 + (dt.m - 1) - k
        yy  == idx \div 12
        mm  == (idx % 12) + 1
        dim == DaysInMonth(yy, mm)
    IN  [y |-> yy, m |-> mm, d |-> IF dt.d >= dim THEN dim ELSE dt.d]

\* date-fns subYears(date, k)
subYears(dt, k) == subMonths(dt, 12 * k)

\* currentDate <= new Date(): both carry the same time of day, and the
\* right side is read later, so the comparison is one of calendar days.
DateLeq(a, b) ==
    \/ a.y < b.y
    \/ a.y = b.y /\ a.m < b.m
    \/ a.y = b.y /\ a.m = b.m /\ a.d <= b.d

Pad2(k) == IF k < 10 THEN "0" \o ToString(k) ELSE ToString(k)

\* date-fns format(date, "yyyy-MM-dd"), for years 1000..9999
format(dt) == ToString(dt.y) \o "-" \o Pad2(dt.m) \o "-" \o Pad2(dt.d)

---------------------------------------------------------------------------
(* Texts and parseFloat                                                    *)

Digits == {"0", "1", "2", "3", "4", "5", "6", "7", "8", "9"}

DigitVal(c) ==
    CASE c = "0" -> 0 [] c = "1" -> 1 [] c = "2" -> 2 [] c = "3" -> 3
      [] c = "4" -> 4 [] c = "5" -> 5 [] c = "6" -> 6 [] c = "7" -> 7
      [] c = "8" -> 8 [] c = "9" -> 9

\* Index of the first character of s at or after i that is not in S.
RECURSIVE SkipWhile(_, _, _)
SkipWhile(s, i, S) ==
    IF i <= Len(s) /\ s[i] \in S THEN SkipWhile(s, i + 1, S) ELSE i

\* The decimal digits s[i..j-1] read as a natural number.
RECURSIVE DigitsVal(_, _, _)
DigitsVal(s, i, j) ==
    IF j <= i THEN 0 ELSE DigitsVal(s, i, j - 1) * 10 + DigitVal(s[j - 1])

RECURSIVE Pow10(_)
Pow10(k) == IF k = 0 THEN 1 ELSE 10 * Pow10(k - 1)

\* JavaScript parseFloat on a decimal literal without exponent: leading
\* white space, an optional sign, digits, an optional fraction; whatever
\* follows is ignored; NaN when there is no digit.
parseFloat(s) ==
    LET a  == SkipWhile(s, 1, {" "})
        sg == IF a <= Len(s) /\ s[a] = "-" THEN -1 ELSE 1
        b  == IF a <= Len(s) /\ s[a] \in {"-", "+"} THEN a + 1 ELSE a
        c  == SkipWhile(s, b, Digits)
        e  == IF c <= Len(s) /\ s[c] = "." THEN SkipWhile(s, c + 1, Digits) ELSE c
        fr == IF e > c THEN e - c - 1 ELSE 0
    IN  IF c = b /\ fr = 0 THEN NaN
        ELSE Rat(sg * (DigitsVal(s, b, c) * Pow10(fr) + DigitsVal(s, c + 1, e)),
                 Pow10(fr))

---------------------------------------------------------------------------
(* Inputs the environment supplies                                         *)

\* Values Math.random() returns (it never returns 1).
RandomDraws == {Num(0), Rat(9, 10)}

Streams == [1..StreamPeriod -> RandomDraws]

\* The draws of Spec, where the series' content is not at issue: Math.random()
\* returns 0.9 throughout.
SteadyStreams == {[i \in 1..StreamPeriod |-> Rat(9, 10)]}

Day(y, m, d) == [y |-> y, m |-> m, d |-> d]

\* The day the page is open on, in Spec and SpecPairs.
Today == Day(2026, 11, 4)

\* The days SpecSeries opens the page on: an ordinary day, the ends of long
\* months, a leap day, the day after February, the first days of a year.
Todays ==
    {Day(2026, 11, 4), Day(2024, 3, 31), Day(2024, 2, 29), Day(2025, 3, 1),
     Day(2026, 1, 3), Day(2025, 5, 31)}

\* Values of timeRange handed to getDateRange in SpecSeries: the four
\* options and two values that are none of them.
RangeInputs == Range(timeRanges) \cup {"", "5y"}

\* What the remote request of a fiat-fiat cycle ends in: a rejected fetch,
\* a response whose ok is false, or a JSON body whose rates[to] is rate
\* (NaN standing for a missing entry).
Response(rejected, ok, rate) == [rejected |-> rejected, ok |-> ok, rate |-> rate]

NoResponse == Response(FALSE, FALSE, NaN)

Responses ==
    {Response(TRUE, FALSE, NaN), Response(FALSE, FALSE, NaN)}
    \cup {Response(FALSE, TRUE, r) : r \in {NaN, Num(0), Rat(9, 10), Rat(5, 4)}}

\* The responses of SpecDisplay.
DisplayResponses == {Response(TRUE, FALSE, NaN), Response(FALSE, TRUE, Rat(9, 10))}

\* Texts typed into the amount and the custom-rate fields.
AmountTexts == {<<>>, <<"1">>, <<"1", "0", "0">>}

CustomRateTexts == {<<>>, <<"2">>, <<"0", ".", "9">>}

\* The options of the currency selectors and of the range selector used in
\* Spec and SpecDisplay.
Offered == {"USD", "EUR", "BTC"}

OfferedRanges == {"1w", "1m"}

---------------------------------------------------------------------------
(* State                                                                   *)

VARIABLES
    mounted,          \* the mount effect has run
    amount,           \* useState cells of App
    fromCurrency,
    toCurrency,
    exchangeRate,
    customRate,
    useCustomRate,
    historicalRates,
    timeRange,
    loading,
    error,
    inflight,         \* resolve cycles awaiting their network response
    today,            \* the calendar day new Date() returns
    outcome,          \* history: per started cycle "pending", "ok" or "fail"
    quoteBy,          \* history: id of the cycle that wrote exchangeRate
    edits,            \* history: edits of the text fields so far
    lastOp            \* history: the step taken last

vars == <<mounted, amount, fromCurrency, toCurrency, exchangeRate, customRate,
          useCustomRate, historicalRates, timeRange, loading, error, inflight,
          today, outcome, quoteBy, edits, lastOp>>

\* What a resolve cycle closes over: the values of the render that created
\* fetchExchangeRate and fetchHistoricalRates.  atStart records the other
\* cells at that moment (history only).
Cycle(id, f, t, r) ==
    [id |-> id, from |-> f, to |-> t, timeRange |-> r, exchangeRate |-> exchangeRate,
     atStart |-> [historicalRates |-> historicalRates, amount |-> amount,
                  customRate |-> customRate, useCustomRate |-> useCustomRate]]

NoCycle ==
    [id |-> 0, from |-> "", to |-> "", timeRange |-> "", exchangeRate |-> NaN,
     atStart |-> [historicalRates |-> <<>>, amount |-> <<>>,
                  customRate |-> <<>>, useCustomRate |-> FALSE]]

\* A step: the handler that ran, the cycle it started or completed (NoCycle
\* when none), the response that arrived, what became of the cycle in this
\* step ("none", "started": now awaiting the response, "ok" or "fail"), and
\* the currency pair before the step.
Op(name, cyc, resp, result) ==
    [op |-> name, cyc |-> cyc, resp |-> resp, result |-> result,
     before |-> <<fromCurrency, toCurrency>>]

---------------------------------------------------------------------------
(* The component's functions                                               *)

getDateRange(range, now) ==
    CASE range = "1m" -> subMonths(now, 1)
      [] range = "3m" -> subMonths(now, 3)
      [] range = "1y" -> subYears(now, 1)
      [] OTHER        -> subDays(now, 7)

\* calculateCryptoRate with the crypto-crypto quotient taken the wrong way
\* round.
calculateCryptoRateInverted(from, to) ==
    IF IsCrypto(from) /\ IsCrypto(to) THEN Div(cryptoBaseRates[to], cryptoBaseRates[from])
    ELSE IF IsCrypto(from) THEN cryptoBaseRates[from]
    ELSE IF IsCrypto(to) THEN Div(Num(1), cryptoBaseRates[to])
    ELSE Num(0)

calculateCryptoRate(from, to) ==
    IF IsCrypto(from) /\ IsCrypto(to) THEN Div(cryptoBaseRates[from], cryptoBaseRates[to])
    ELSE IF IsCrypto(from) THEN cryptoBaseRates[from]
    ELSE IF IsCrypto(to) THEN Div(Num(1), cryptoBaseRates[to])
    ELSE Num(0)

\* The loop with < in place of <=: today is left out.
RECURSIVE datesLoopExclusive(_, _, _)
datesLoopExclusive(currentDate, now, dates) ==
    IF DateLeq(currentDate, now) /\ currentDate # now
    THEN LET sameMonth == currentDate.y = now.y /\ currentDate.m = now.m
             last == [currentDate EXCEPT !.d =
                        IF sameMonth THEN now.d - 1
                        ELSE DaysInMonth(currentDate.y, currentDate.m)]
             pushed == [i \in 1..(last.d - currentDate.d + 1) |->
                          format([currentDate EXCEPT !.d = currentDate.d + i - 1])]
         IN  datesLoopExclusive(NextDay(last), now, dates \o pushed)
    ELSE dates

\* The while loop of fetchHistoricalRates: the formatted days from
\* currentDate up to now, now included.  The loop's iterations are taken a
\* month at a time: within a month setDate(getDate() + 1) raises the day by
\* one, and from its last day NextDay moves to the first of the next month.
RECURSIVE datesLoop(_, _, _)
datesLoop(currentDate, now, dates) ==
    IF DateLeq(currentDate, now)
    THEN LET sameMonth == currentDate.y = now.y /\ currentDate.m = now.m
             last == [currentDate EXCEPT !.d =
                        IF sameMonth THEN now.d
                        ELSE DaysInMonth(currentDate.y, currentDate.m)]
             pushed == [i \in 1..(last.d - currentDate.d + 1) |->
                          format([currentDate EXCEPT !.d = currentDate.d + i - 1])]
         IN  datesLoop(NextDay(last), now, dates \o pushed)
    ELSE dates

volatility(from, to) ==
    IF IsCrypto(from) \/ IsCrypto(to) THEN Rat(15, 100) ELSE Rat(5, 100)

\* baseRate * (1 + (Math.random() * volatility * 2 - volatility))
perturbed(baseRate, vol, random) ==
    Mul(baseRate, Add(Num(1), Sub(Mul(Mul(random, vol), Num(2)), vol)))

\* The series fetchHistoricalRates hands to setHistoricalRates, run from
\* the closure cyc on the day now with the random draws of stream.
fetchHistoricalRates(cyc, now, stream) ==
    LET dates    == datesLoop(getDateRange(cyc.timeRange, now), now, <<>>)
        baseRate == cyc.exchangeRate
        vol      == volatility(cyc.from, cyc.to)
    IN  [i \in 1..Len(dates) |->
            [date |-> dates[i],
             rate |-> perturbed(baseRate, vol, stream[((i - 1) % StreamPeriod) + 1])]]

\* effectiveRate falling back to the quote when the custom text does not
\* parse.
effectiveRateFallback ==
    IF useCustomRate /\ ~IsNaN(parseFloat(customRate))
    THEN parseFloat(customRate) ELSE exchangeRate

effectiveRate == IF useCustomRate THEN parseFloat(customRate) ELSE exchangeRate

\* The first line of the result block: the product, or the prompt.
conversionOutput ==
    IF Truthy(parseFloat(amount))
    THEN [valid |-> TRUE, value |-> Mul(parseFloat(amount), effectiveRate)]
    ELSE [valid |-> FALSE, value |-> NaN]

\* The try block without the !rate check.
requestFailsStatusOnly(resp) == resp.rejected \/ ~resp.ok

\* The try block throws: fetch rejected, !response.ok, or !rate.
requestFails(resp) == resp.rejected \/ ~resp.ok \/ ~Truthy(resp.rate)

---------------------------------------------------------------------------
(* The resolve cycle                                                       *)

\* The success path behind a sequence token: only the cycle started last
\* may write its result.
resolveSucceedsIfLatest(cyc, rate, stream) ==
    IF cyc.id = Len(outcome) \/ cyc.id = Len(outcome) + 1
    THEN /\ exchangeRate' = rate
         /\ historicalRates' = fetchHistoricalRates(cyc, today, stream)
         /\ quoteBy' = cyc.id
    ELSE UNCHANGED <<exchangeRate, historicalRates, quoteBy>>

\* setExchangeRate(rate); await fetchHistoricalRates()
resolveSucceeds(cyc, rate, stream) ==
    /\ exchangeRate' = rate
    /\ historicalRates' = fetchHistoricalRates(cyc, today, stream)
    /\ quoteBy' = cyc.id

\* A catch block that also clears the quote and the series.
catchBlockClearing ==
    /\ error' = ErrorMessage
    /\ exchangeRate' = Num(0)
    /\ historicalRates' = <<>>
    /\ quoteBy' = quoteBy

\* The catch block: the message is set and nothing else is touched.
catchBlock ==
    /\ error' = ErrorMessage
    /\ UNCHANGED <<exchangeRate, historicalRates, quoteBy>>

\* loading kept as a count of the cycles still awaiting a response.
endOfCycleCounted == loading' = (inflight' # {})

\* setLoading(false), the last statement of fetchExchangeRate
endOfCycle == loading' = FALSE

\* fetchExchangeRate() called from the render whose fromCurrency,
\* toCurrency and timeRange are f, t and r, up to its first suspension at
\* the network request, or to its end when a leg is crypto.
fetchExchangeRate(name, f, t, r, stream) ==
    LET cyc == Cycle(Len(outcome) + 1, f, t, r)
    IN  /\ Len(outcome) < MaxCycles
        /\ IF IsCrypto(f) \/ IsCrypto(t)
           THEN /\ inflight' = inflight
                /\ error' = ""
                /\ resolveSucceeds(cyc, calculateCryptoRate(f, t), stream)
                /\ endOfCycle
                /\ outcome' = Append(outcome, "ok")
                /\ lastOp' = Op(name, cyc, NoResponse, "ok")
           ELSE /\ loading' = TRUE
                /\ error' = ""
                /\ inflight' = inflight \cup {cyc}
                /\ outcome' = Append(outcome, "pending")
                /\ lastOp' = Op(name, cyc, NoResponse, "started")
                /\ UNCHANGED <<exchangeRate, historicalRates, quoteBy>>

\* The rest of a fiat-fiat cycle, run when its request settles with resp.
ResponseArrives(cyc, resp, stream) ==
    /\ cyc \in inflight
    /\ inflight' = inflight \ {cyc}
    /\ IF requestFails(resp)
       THEN /\ catchBlock
            /\ outcome' = [outcome EXCEPT ![cyc.id] = "fail"]
            /\ lastOp' = Op("response", cyc, resp, "fail")
       ELSE /\ resolveSucceeds(cyc, resp.rate, stream)
            /\ error' = error
            /\ outcome' = [outcome EXCEPT ![cyc.id] = "ok"]
            /\ lastOp' = Op("response", cyc, resp, "ok")
    /\ endOfCycle
    /\ UNCHANGED <<mounted, amount, fromCurrency, toCurrency, customRate,
                   useCustomRate, timeRange, today, edits>>

---------------------------------------------------------------------------
(* Effects and handlers                                                    *)

\* The effect's first run, after the first render.
Mount(stream) ==
    /\ ~mounted
    /\ mounted' = TRUE
    /\ fetchExchangeRate("mount", fromCurrency, toCurrency, timeRange, stream)
    /\ UNCHANGED <<amount, fromCurrency, toCurrency, customRate, useCustomRate,
                   timeRange, today, edits>>

SetAmount(text) ==
    /\ mounted /\ text # amount
    /\ amount' = text
    /\ edits' = edits + 1
    /\ lastOp' = Op("setAmount", NoCycle, NoResponse, "none")
    /\ UNCHANGED <<mounted, fromCurrency, toCurrency, exchangeRate, customRate,
                   useCustomRate, historicalRates, timeRange, loading, error,
                   inflight, today, outcome, quoteBy>>

SetCustomRate(text) ==
    /\ mounted /\ text # customRate
    /\ customRate' = text
    /\ edits' = edits + 1
    /\ lastOp' = Op("setCustomRate", NoCycle, NoResponse, "none")
    /\ UNCHANGED <<mounted, amount, fromCurrency, toCurrency, exchangeRate,
                   useCustomRate, historicalRates, timeRange, loading, error,
                   inflight, today, outcome, quoteBy>>

ToggleCustomRate ==
    /\ mounted
    /\ useCustomRate' = ~useCustomRate
    /\ edits' = edits + 1
    /\ lastOp' = Op("toggleCustomRate", NoCycle, NoResponse, "none")
    /\ UNCHANGED <<mounted, amount, fromCurrency, toCurrency, exchangeRate,
                   customRate, historicalRates, timeRange, loading, error,
                   inflight, today, outcome, quoteBy>>

\* The from selector changes to c; the effect then starts a cycle.
SetFromCurrency(c, stream) ==
    /\ mounted /\ c # fromCurrency
    /\ fromCurrency' = c
    /\ fetchExchangeRate("setFromCurrency", c, toCurrency, timeRange, stream)
    /\ UNCHANGED <<mounted, amount, toCurrency, customRate, useCustomRate,
                   timeRange, today, edits>>

SetToCurrency(c, stream) ==
    /\ mounted /\ c # toCurrency
    /\ toCurrency' = c
    /\ fetchExchangeRate("setToCurrency", fromCurrency, c, timeRange, stream)
    /\ UNCHANGED <<mounted, amount, fromCurrency, customRate, useCustomRate,
                   timeRange, today, edits>>

SetTimeRange(r, stream) ==
    /\ mounted /\ r # timeRange
    /\ timeRange' = r
    /\ fetchExchangeRate("setTimeRange", fromCurrency, toCurrency, r, stream)
    /\ UNCHANGED <<mounted, amount, fromCurrency, toCurrency, customRate,
                   useCustomRate, today, edits>>

\* The swap with the second setter reading the value the first one wrote.
handleSwapSequential ==
    /\ fromCurrency' = toCurrency
    /\ toCurrency' = fromCurrency'

\* The two setter calls of handleSwapCurrencies: both arguments are the
\* values of the render the handler belongs to.
handleSwapCurrencies ==
    /\ fromCurrency' = toCurrency
    /\ toCurrency' = fromCurrency

\* The swap button; the effect runs only when a dependency changed.
Swap(stream) ==
    /\ mounted
    /\ handleSwapCurrencies
    /\ IF fromCurrency' # fromCurrency \/ toCurrency' # toCurrency
       THEN fetchExchangeRate("swap", fromCurrency', toCurrency', timeRange, stream)
       ELSE /\ lastOp' = Op("swap", NoCycle, NoResponse, "none")
            /\ UNCHANGED <<exchangeRate, historicalRates, loading, error,
                           inflight, outcome, quoteBy>>
    /\ UNCHANGED <<mounted, amount, customRate, useCustomRate, timeRange,
                   today, edits>>

\* The refresh button, disabled while loading.
Refresh(stream) ==
    /\ mounted /\ ~loading
    /\ fetchExchangeRate("refresh", fromCurrency, toCurrency, timeRange, stream)
    /\ UNCHANGED <<mounted, amount, fromCurrency, toCurrency, customRate,
                   useCustomRate, timeRange, today, edits>>

---------------------------------------------------------------------------
(* Specifications                                                          *)

InitCells ==
    /\ mounted = FALSE
    /\ amount = <<"1">>
    /\ exchangeRate = Num(0)
    /\ customRate = <<>>
    /\ useCustomRate = FALSE
    /\ historicalRates = <<>>
    /\ loading = FALSE
    /\ error = ""
    /\ inflight = {}
    /\ outcome = <<>>
    /\ quoteBy = 0
    /\ edits = 0
    /\ lastOp = Op("render", NoCycle, NoResponse, "none")

Init ==
    /\ fromCurrency = "USD"
    /\ toCurrency = "EUR"
    /\ timeRange = "1w"
    /\ today = Today
    /\ InitCells

Next ==
    \/ \E s \in SteadyStreams : Mount(s)
    \/ \E c \in Offered, s \in SteadyStreams : SetFromCurrency(c, s)
    \/ \E c \in Offered, s \in SteadyStreams : SetToCurrency(c, s)
    \/ \E r \in OfferedRanges, s \in SteadyStreams : SetTimeRange(r, s)
    \/ \E s \in SteadyStreams : Swap(s)
    \/ \E s \in SteadyStreams : Refresh(s)
    \/ \E cyc \in inflight, resp \in Responses, s \in SteadyStreams : ResponseArrives(cyc, resp, s)

Spec == Init /\ [][Next]_vars

\* The page with its text fields and the custom-rate toggle in use while
\* cycles started by the mount effect and by swaps run, each request ending
\* in a rejection or in a rate.
NextDisplay ==
    \/ \E s \in SteadyStreams : Mount(s)
    \/ \E text \in AmountTexts : edits < MaxEdits /\ SetAmount(text)
    \/ \E text \in CustomRateTexts : edits < MaxEdits /\ SetCustomRate(text)
    \/ edits < MaxEdits /\ ToggleCustomRate
    \/ \E s \in SteadyStreams : Swap(s)
    \/ \E cyc \in inflight, resp \in DisplayResponses, s \in SteadyStreams : ResponseArrives(cyc, resp, s)

SpecDisplay == Init /\ [][NextDisplay]_vars

\* The resolve cycle on every ordered pair of the seventeen symbols: the
\* page with any pair selected, the cycle run on it, its response.
InitPairs ==
    /\ fromCurrency \in Symbols
    /\ toCurrency \in Symbols
    /\ timeRange = "1w"
    /\ today = Today
    /\ InitCells

NextPairs ==
    \/ \E s \in Streams : Mount(s)
    \/ \E s \in Streams : Refresh(s)
    \/ \E cyc \in inflight, resp \in Responses, s \in Streams : ResponseArrives(cyc, resp, s)

SpecPairs == InitPairs /\ [][NextPairs]_vars

\* The historical series on every day of Todays and every range input.
InitSeries ==
    /\ fromCurrency \in {"USD", "BTC"}
    /\ toCurrency = "EUR"
    /\ timeRange \in RangeInputs
    /\ today \in Todays
    /\ InitCells

NextSeries ==
    \/ \E s \in Streams : Mount(s)
    \/ \E s \in Streams : Refresh(s)
    \/ \E cyc \in inflight, resp \in Responses, s \in Streams : ResponseArrives(cyc, resp, s)

SpecSeries == InitSeries /\ [][NextSeries]_vars

---------------------------------------------------------------------------
(* Properties                                                              *)

CryptoSet == {"BTC", "ETH", "USDT", "BNB", "XRP", "ADA", "DOT", "DOGE"}

\* The step taken last ran fetchExchangeRate from its first statement.
CycleStartedLast == lastOp.op # "response" /\ lastOp.cyc.id # 0

\* The step taken last was the arrival of a response.
ResponseLast == lastOp.op = "response"

\* A request that did not deliver a usable rate: rejected, a status that
\* is not ok, or rates[to] missing or falsy.
RequestFailed(resp) ==
    resp.rejected \/ ~resp.ok \/ resp.rate = NaN \/ resp.rate = Num(0)

\* Days since 1970-01-01 of a calendar day, and the calendar day of a day
\* count (proleptic Gregorian calendar).
DayNumber(dt) ==
    LET yy  == IF dt.m <= 2 THEN dt.y - 1 ELSE dt.y
        era == yy \div 400
        yoe == yy - era * 400
        mp  == IF dt.m > 2 THEN dt.m - 3 ELSE dt.m + 9
        doy == (153 * mp + 2) \div 5 + dt.d - 1
        doe == yoe * 365 + yoe \div 4 - yoe \div 100 + doy
    IN  era * 146097 + doe - 719468

DateOfDayNumber(z) ==
    LET zz  == z + 719468
        era == zz \div 146097
        doe == zz - era * 146097
        yoe == (doe - doe \div 1460 + doe \div 36524 - doe \div 146096) \div 365
        doy == doe - (365 * yoe + yoe \div 4 - yoe \div 100)
        mp  == (5 * doy + 2) \div 153
        dd  == doy - (153 * mp + 2) \div 5 + 1
        mm  == IF mp < 10 THEN mp + 3 ELSE mp - 9
        yy  == yoe + era * 400
    IN  Day(IF mm <= 2 THEN yy + 1 ELSE yy, mm, dd)

\* C1: a resolve cycle on a pair with a crypto leg ends in the step that
\* starts it, without a request left awaiting a response, and sets the
\* quote to base[from] / base[to] (both crypto; 15 for BTC->ETH, 1 for
\* from = to), to base[from] (only from crypto), to 1 / base[to] (only to
\* crypto).
C1_CryptoQuote ==
    LET f == lastOp.cyc.from
        t == lastOp.cyc.to
    IN  (CycleStartedLast /\ (f \in CryptoSet \/ t \in CryptoSet)) =>
            /\ \A c \in inflight : c.id # lastOp.cyc.id
            /\ outcome[lastOp.cyc.id] = "ok"
            /\ ~IsNaN(exchangeRate)
            /\ (f \in CryptoSet /\ t \in CryptoSet) =>
                   Mul(exchangeRate, cryptoBaseRates[t]) = cryptoBaseRates[f]
            /\ (f = "BTC" /\ t = "ETH") => exchangeRate = Num(15)
            /\ (f \in CryptoSet /\ f = t) => exchangeRate = Num(1)
            /\ (f \in CryptoSet /\ t \notin CryptoSet) => exchangeRate = cryptoBaseRates[f]
            /\ (f \notin CryptoSet /\ t \in CryptoSet) =>
                   Mul(exchangeRate, cryptoBaseRates[t]) = Num(1)

C1_Witness ==
    /\ CycleStartedLast
    /\ lastOp.cyc.from = "BTC" /\ lastOp.cyc.to = "ETH"
    /\ fromCurrency = "BTC" /\ toCurrency = "ETH"
    /\ exchangeRate = Num(15)
    /\ inflight = {}

\* x lies within r * (1 - v) .. r * (1 + v).
WithinBand(x, r, v) ==
    /\ Leq(Mul(r, Sub(Num(1), v)), x)
    /\ Leq(x, Mul(r, Add(Num(1), v)))

\* C2: after a cycle that succeeded with rate r, every point of the series
\* it wrote lies within r * (1 - v) .. r * (1 + v), r being the rate this
\* cycle resolved, v = 0.15 with a crypto leg and 0.05 without.
C2_SeriesAroundResolvedRate ==
    LET v == IF lastOp.cyc.from \in CryptoSet \/ lastOp.cyc.to \in CryptoSet
             THEN Rat(15, 100) ELSE Rat(5, 100)
    IN  lastOp.result = "ok" =>
            \A i \in 1..Len(historicalRates) :
                WithinBand(historicalRates[i].rate, exchangeRate, v)

\* The values the custom-rate texts stand for.
CustomRateValue(text) ==
    CASE text = <<"2">> -> Num(2)
      [] text = <<"0", ".", "9">> -> Rat(9, 10)
      [] OTHER -> NaN

\* C3 as stated: the effective rate is the parsed custom rate when the
\* override is on and the text parses as a finite number, and the
\* resolved quote in every other case.
C3_FallsBackToQuote ==
    effectiveRate = IF useCustomRate /\ CustomRateValue(customRate) # NaN
                    THEN CustomRateValue(customRate) ELSE exchangeRate

\* C3, amended: with the override on the effective rate is the parsed
\* custom rate, NaN when the text is empty or does not parse; with the
\* override off it is the resolved quote; the conversion output is the
\* parsed amount times it.
C3_EffectiveRate ==
    /\ useCustomRate => effectiveRate = CustomRateValue(customRate)
    /\ ~useCustomRate => effectiveRate = exchangeRate
    /\ (lastOp.op = "toggleCustomRate" /\ ~useCustomRate) => effectiveRate = exchangeRate
    /\ conversionOutput.valid =>
           conversionOutput.value =
               Mul(parseFloat(amount),
                   IF useCustomRate THEN CustomRateValue(customRate) ELSE exchangeRate)

C3_Witness ==
    /\ useCustomRate
    /\ customRate = <<>>
    /\ exchangeRate = Rat(9, 10)
    /\ effectiveRate = NaN
    /\ conversionOutput.valid /\ conversionOutput.value = NaN

\* C4: when the request of a fiat-fiat cycle fails, the step that completes
\* the cycle leaves the error message set and loading false, and starts no
\* cycle.
C4_FailureReported ==
    [][(lastOp'.op = "response" /\ RequestFailed(lastOp'.resp)) =>
           /\ error' = ErrorMessage
           /\ loading' = FALSE
           /\ inflight' = inflight \ {lastOp'.cyc}
           /\ Len(outcome') = Len(outcome)
           /\ outcome'[lastOp'.cyc.id] = "fail"]_vars

C4_Witness ==
    /\ ResponseLast
    /\ lastOp.resp = Response(FALSE, TRUE, NaN)
    /\ error = ErrorMessage
    /\ ~loading
    /\ inflight = {}

\* C5: the swap exchanges the two currencies, both read before the swap,
\* and a second swap right after restores the pair.
C5_SwapExchanges ==
    [][/\ lastOp'.op = "swap" =>
              fromCurrency' = toCurrency /\ toCurrency' = fromCurrency
       /\ (lastOp.op = "swap" /\ lastOp'.op = "swap") =>
              <<fromCurrency', toCurrency'>> = lastOp.before]_vars

C5_Witness ==
    /\ lastOp.op = "swap"
    /\ lastOp.before = <<"USD", "BTC">>
    /\ fromCurrency = "BTC" /\ toCurrency = "USD"

\* The first day of the series for a range value.
ExpectedStart(range, now) ==
    CASE range = "1m" -> subMonths(now, 1)
      [] range = "3m" -> subMonths(now, 3)
      [] range = "1y" -> subMonths(now, 12)
      [] OTHER        -> DateOfDayNumber(DayNumber(now) - 7)

\* C6: the series of a cycle that succeeded has one point per calendar day
\* from the start of the cycle's range to today, both included, in
\* ascending order; the start is 7 days back for "1w" (8 points) and for a
\* value that is none of the four.
C6_OnePointPerDay ==
    lastOp.result = "ok" =>
        LET range == lastOp.cyc.timeRange
            first == DayNumber(ExpectedStart(range, today))
            count == DayNumber(today) - first + 1
        IN  /\ Len(historicalRates) = count
            /\ \A i \in 1..count :
                   historicalRates[i].date = format(DateOfDayNumber(first + i - 1))
            /\ range \notin {"1m", "3m", "1y"} => count = 8
            /\ range = "1m" => count \in 29..32
            /\ range = "3m" => count \in 90..93
            /\ range = "1y" => count \in 366..367

C6_Witness ==
    /\ lastOp.result = "ok"
    /\ lastOp.cyc.timeRange = "1m"
    /\ today = Day(2024, 3, 31)
    /\ Len(historicalRates) = 32
    /\ historicalRates[1].date = "2024-02-29"
    /\ historicalRates[32].date = "2024-03-31"

\* C7: a cycle is never cancelled (it awaits its response until the
\* response arrives, whatever is started meanwhile), and a response with a
\* usable rate always writes the quote, whether or not a later cycle was
\* started or has completed.
C7_NoCancelNoSequence ==
    /\ \A id \in 1..Len(outcome) :
           outcome[id] = "pending" <=> \E c \in inflight : c.id = id
    /\ (ResponseLast /\ ~RequestFailed(lastOp.resp)) =>
           /\ exchangeRate = lastOp.resp.rate
           /\ quoteBy = lastOp.cyc.id

\* The P1 response arrived after the P2 cycle completed: no cycle is in
\* flight and the quote is the rate of P1 while the pair is P2.
C7_Witness ==
    /\ inflight = {}
    /\ Len(outcome) = 2
    /\ ResponseLast /\ lastOp.cyc.id = 1
    /\ <<lastOp.cyc.from, lastOp.cyc.to>> = <<"USD", "EUR">>
    /\ <<fromCurrency, toCurrency>> = <<"EUR", "EUR">>
    /\ outcome = <<"ok", "ok">>
    /\ lastOp.resp.rate = Rat(5, 4)
    /\ exchangeRate = Rat(5, 4)
    /\ quoteBy = 1

\* C8: loading is true after every step that leaves a started cycle
\* awaiting its response and false after every step that ends a cycle,
\* however many other cycles are in flight; the refresh button starts a
\* cycle only from a state where loading is false.
C8_LoadingIsAFlag ==
    [][/\ lastOp'.result = "started" => loading'
       /\ (lastOp'.op = "response" \/ lastOp'.result \in {"ok", "fail"}) => ~loading'
       /\ lastOp'.op = "refresh" => ~loading]_vars

\* Refresh has started a cycle while two others were in flight, the first
\* of them having ended and cleared loading.
C8_Witness ==
    /\ lastOp.op = "refresh"
    /\ loading
    /\ Cardinality(inflight) = 2
    /\ \E c \in inflight : c.id = 2
    /\ outcome[1] # "pending"

\* C9 as stated: after a cycle failed, the quote, the series and the other
\* cells equal their values before the cycle started.
C9_AsBeforeStart ==
    (ResponseLast /\ RequestFailed(lastOp.resp)) =>
        /\ exchangeRate = lastOp.cyc.exchangeRate
        /\ historicalRates = lastOp.cyc.atStart.historicalRates
        /\ amount = lastOp.cyc.atStart.amount
        /\ fromCurrency = lastOp.cyc.from
        /\ toCurrency = lastOp.cyc.to
        /\ timeRange = lastOp.cyc.timeRange
        /\ customRate = lastOp.cyc.atStart.customRate
        /\ useCustomRate = lastOp.cyc.atStart.useCustomRate

\* C9, amended: the steps of a failing cycle write loading and error only:
\* the step that starts a cycle awaiting a response changes neither the
\* quote nor the series, and the step in which a request fails changes
\* none of the quote, the series, the amount, the currencies, the range
\* and the custom rate.
C9_FailureWritesLoadingAndError ==
    [][/\ (lastOp'.op = "response" /\ RequestFailed(lastOp'.resp)) =>
              UNCHANGED <<exchangeRate, historicalRates, amount, fromCurrency,
                          toCurrency, timeRange, customRate, useCustomRate>>
       /\ lastOp'.result = "started" =>
              UNCHANGED <<exchangeRate, historicalRates, amount, customRate,
                          useCustomRate>>]_vars

C9_Witness ==
    /\ ResponseLast /\ RequestFailed(lastOp.resp)
    /\ error = ErrorMessage
    /\ exchangeRate = Rat(9, 10)
    /\ Len(historicalRates) = 8
    /\ inflight = {}

\* C10: with no cycle in flight, the error is set exactly when the cycle
\* started last failed.
C10_ErrorOfLatestCycle ==
    (inflight = {} /\ Len(outcome) > 0) =>
        (error # "" <=> outcome[Len(outcome)] = "fail")

=============================================================================
